---- MODULE Spec2Model ----
(***************************************************************************)
(* A model of generate.py: CertificateGenerator (construction, text        *)
(* centering, single render, batch render), read_names_from_csv and main.  *)
(*                                                                         *)
(* Strings are sequences of one-character strings.  Python's None is the   *)
(* record None, a value of every other Python type is a record with its    *)
(* own "kind".  Coordinates are kept in half pixels (the fields x2, y2     *)
(* hold twice the Python value): line 39 and 40 use true division, so the  *)
(* Python values are floats with a possible .5.                            *)
(***************************************************************************)
EXTENDS Integers, Sequences, FiniteSets, TLC

VARIABLES
    env,          \* the files and configuration the run finds; never written
    outDirExists, \* filesystem: the output directory exists
    files,        \* filesystem: file name in the output directory -> image
    heap,         \* the image objects: self.template and the working copy
    width,        \* self.width
    height,       \* self.height
    font,         \* self.font (its metrics)
    ctorError,    \* the exception __init__ raised, or None
    pc,           \* "new", "idle", "batch", "dead" (construction failed), "crashed"
    names,        \* generate_batch: its argument
    idx,          \* generate_batch: 1-based position of the for loop
    successful,   \* generate_batch: local counter
    failed,       \* generate_batch: local counter
    calls,        \* generate_batch: the generate_certificate calls it made
    batchRet,     \* generate_batch: the value it returned
    lastCall,     \* the frame of the latest generate_certificate call
    stdout,       \* the lines printed so far
    nRenders,     \* number of generate_certificate calls so far
    nBatches,     \* number of generate_batch calls so far
    mpc,          \* main: position ("na" when main is not running)
    diag          \* main: the diagnostic printed by its except clause

vars == <<env, outDirExists, files, heap, width, height, font, ctorError, pc,
          names, idx, successful, failed, calls, batchRet, lastCall, stdout,
          nRenders, nBatches, mpc, diag>>

-----------------------------------------------------------------------------
(* Bounds *)

MaxLen == 3        \* longest name of the sanitization specification
MaxRenders == 2    \* generate_certificate calls in one run
MaxBatches == 1    \* generate_batch calls in one run
MaxDim == 5        \* largest template width and height of the centering specification
MaxAdvance == 2    \* widest glyph advance of the centering specification

-----------------------------------------------------------------------------
(* Values *)

None == [kind |-> "None"]

Str(s) == [kind |-> "str", s |-> s]

\* The characters of the model, by the classes line 58 tells apart.
Alnum == {"a", "b", "1", "O", "B", "r", "i", "e", "n", "J"}
Whitespace == {" ", "\t"}
Chars == {"a", "1", " ", "-", "_", "!", "\t"}

isalnum(c) == c \in Alnum

Strings(S, n) == UNION {[1..k -> S] : k \in 0..n}

OBrien == <<"O", "'", "B", "r", "i", "e", "n", ",", " ", "J", "r", ".", "!">>

RECURSIVE lstrip(_)
lstrip(s) ==
    IF s # <<>> /\ Head(s) \in Whitespace THEN lstrip(Tail(s)) ELSE s

RECURSIVE rstrip(_)
rstrip(s) ==
    IF s # <<>> /\ s[Len(s)] \in Whitespace
    THEN rstrip(SubSeq(s, 1, Len(s) - 1))
    ELSE s

strip(s) == rstrip(lstrip(s))

keeps_char(c) == isalnum(c) \/ c \in {" ", "-", "_"}

safe_filename_nostrip(name) == SelectSeq(name, keeps_char)

\* line 58
safe_filename(name) == strip(SelectSeq(name, keeps_char))

-----------------------------------------------------------------------------
(* Paths and the filesystem *)

Cwd == <<"cwd">>

Dir(abs, parts) == [kind |-> "Dir", abs |-> abs, parts |-> parts]

\* Path.absolute() (line 86): a relative path is joined to the working directory
absolute(d) == IF d.abs THEN d ELSE Dir(TRUE, Cwd \o d.parts)

PngSuffix == <<".", "p", "n", "g">>

\* line 59: self.output_dir / f"{safe_filename}.png"
output_path_of(output_dir, stem) ==
    [kind |-> "Path", dir |-> output_dir, file |-> stem \o PngSuffix]

LastDot(p) ==
    LET dots == {k \in 1..Len(p) : p[k] = "."}
    IN  IF dots = {} THEN 0 ELSE CHOOSE k \in dots : \A j \in dots : j <= k

splitext_at_last_dot(p) ==
    LET d == LastDot(p)
    IN  IF d > 0
        THEN <<SubSeq(p, 1, d - 1), SubSeq(p, d, Len(p))>>
        ELSE <<p, <<>>>>

\* os.path.splitext on the last path component, as Image.save applies it to
\* the file name (line 60): leading dots belong to the root, so ".png" has
\* no extension.
splitext(p) ==
    LET d == LastDot(p)
    IN  IF d > 0 /\ \E k \in 1..(d - 1) : p[k] # "."
        THEN <<SubSeq(p, 1, d - 1), SubSeq(p, d, Len(p))>>
        ELSE <<p, <<>>>>

\* The extensions the imaging library has a writer for (line 60); the model
\* needs only the one the program uses.
EXTENSION == {PngSuffix}

save_file_keep_existing(fs, file, image) ==
    [f \in (DOMAIN fs) \cup {file} |-> IF f \in DOMAIN fs THEN fs[f] ELSE image]

\* line 60, the write itself: the file is created or overwritten
save_file(fs, file, image) ==
    [f \in (DOMAIN fs) \cup {file} |-> IF f = file THEN image ELSE fs[f]]

NoFiles == [f \in {} |-> None]

-----------------------------------------------------------------------------
(* Images *)

Image(w, h) == [kind |-> "Image", size |-> <<w, h>>, ink |-> <<>>]

\* line 55: draw.text((x, y), name, fill=..., font=...) on the image `ref`
draw_text(hp, ref, pos, text, fill) ==
    [hp EXCEPT ![ref].ink =
        Append(@, [text |-> text, x2 |-> pos.x2, y2 |-> pos.y2, fill |-> fill])]

copy_alias(hp) == [ref |-> "template", heap |-> hp]

\* line 48: image = self.template.copy(): a new image object with the
\* template's content; `ref` names the object the local `image` refers to
copy(hp) == [ref |-> "work", heap |-> [hp EXCEPT !.work = hp.template]]

-----------------------------------------------------------------------------
(* Text centering *)

UpwardAdjust == 30

\* line 34: draw.textbbox((0, 0), text, font=self.font), for a font whose
\* glyphs advance by f.advance, start f.left right of the origin and span
\* f.top .. f.top + f.glyph_height below it: <<left, top, right, bottom>>
textbbox(f, text) ==
    <<f.left, f.top, f.left + Len(text) * f.advance, f.top + f.glyph_height>>

calculate_text_position_right_edge(w, h, f, text) ==
    LET bbox == textbbox(f, text)
        text_width == bbox[3]
        text_height == bbox[4]
    IN  [kind |-> "pos", x2 |-> w - text_width,
         y2 |-> (h - text_height) - 2 * UpwardAdjust]

\* lines 31-42, in half pixels
_calculate_text_position(w, h, f, text) ==
    LET bbox == textbbox(f, text)
        text_width == bbox[3] - bbox[1]
        text_height == bbox[4] - bbox[2]
    IN  [kind |-> "pos", x2 |-> w - text_width,
         y2 |-> (h - text_height) - 2 * UpwardAdjust]

-----------------------------------------------------------------------------
(* Exceptions *)

\* An exception: its class and its message.  A message is the sequence of
\* its fixed fragments `text`, the path or column it names (`subject`, ""
\* when it names none) and the list it ends with (`list`).
Msg(text, subject, list) == [text |-> text, subject |-> subject, list |-> list]

Exc(type, what) == [kind |-> "exc", type |-> type, what |-> what]

\* The classes the program's failures belong to; all derive from Exception.
ExceptionClasses ==
    {"Exception", "OSError", "FileNotFoundError", "PermissionError",
     "ValueError", "TypeError"}

caught_os_errors_only(e) == e.type \in {"OSError", "FileNotFoundError", "PermissionError"}

\* lines 64 and 140: except Exception
caught(e) == e.type \in ExceptionClasses

\* str(e): the message without the class
str(e) == e.what

-----------------------------------------------------------------------------
(* generate_certificate, lines 44-66 *)

\* What the environment can make fail in one call: nothing, or one of the
\* library calls of lines 48, 52, 55 and 60.
Faults == {"none", "copy", "measure", "draw", "save"}

Frame(name, fault, reached, pos, stem, path, exc, ret, escaped) ==
    [name |-> name, fault |-> fault, reached |-> reached, pos |-> pos,
     safe_filename |-> stem, output_path |-> path, exc |-> exc, ret |-> ret,
     escaped |-> escaped]

OkLine(name) == [kind |-> "ok", name |-> name]

ErrLine(name, msg) == [kind |-> "err", name |-> name, msg |-> msg]

\* lines 64-66: the handler of the try block, entered with the exception e
\* raised after the state (hp, fs) was reached
handler(hp, fs, name, fault, reached, pos, stem, path, e) ==
    IF caught(e)
    THEN [heap |-> hp, files |-> fs, out |-> <<ErrLine(name, str(e))>>,
          frame |-> Frame(name, fault, reached, pos, stem, path, e, None, FALSE)]
    ELSE [heap |-> hp, files |-> fs, out |-> <<>>,
          frame |-> Frame(name, fault, reached, pos, stem, path, e, None, TRUE)]

\* lines 57-62: sanitize, save, report, return
save_and_return(self, hp, ref, fs, name, fault, pos) ==
    LET stem == safe_filename(name)
        output_path == output_path_of(self.output_dir, stem)
        ext == splitext(output_path.file)[2]
    IN  IF ext \notin EXTENSION
        THEN handler(hp, fs, name, fault, "save", pos, Str(stem), output_path,
                     Exc("ValueError", Msg(<<"unknown file extension">>, "", <<>>)))
        ELSE IF fault = "save"
        THEN handler(hp, fs, name, fault, "save", pos, Str(stem), output_path,
                     Exc("OSError", Msg(<<"cannot write">>, "", <<>>)))
        ELSE [heap |-> hp,
              files |-> save_file(fs, output_path.file, hp[ref]),
              out |-> <<OkLine(name)>>,
              frame |-> Frame(name, fault, "return", pos, Str(stem), output_path,
                              None, output_path, FALSE)]

\* lines 44-66.  self: the generator's fields; fs: the files of the output
\* directory.  The result: the heap and files after the call, the lines
\* printed, and the frame (locals, return value, whether an exception left
\* the call).
generate_certificate(self, fs, name, fault) ==
    IF fault = "copy"
    THEN handler(self.heap, fs, name, fault, "copy", None, None, None,
                 Exc("OSError", Msg(<<"cannot load image">>, "", <<>>)))
    ELSE
    LET c == copy(self.heap)
    IN  IF fault = "measure"
        THEN handler(c.heap, fs, name, fault, "measure", None, None, None,
                     Exc("OSError", Msg(<<"cannot measure text">>, "", <<>>)))
        ELSE
        LET pos == _calculate_text_position(self.width, self.height, self.font, name)
        IN  IF fault = "draw"
            THEN handler(c.heap, fs, name, fault, "draw", pos, None, None,
                         Exc("ValueError", Msg(<<"cannot draw">>, "", <<>>)))
            ELSE
            LET drawn == draw_text(c.heap, c.ref, pos, name, self.font_color)
            IN  save_and_return(self, drawn, c.ref, fs, name, fault, pos)

-----------------------------------------------------------------------------
(* Construction, lines 7-29 *)

TemplatePath == "template.png"
FontPath == "font.ttf"

\* lines 24-29: the exception raised, or None
_validate_paths(e) ==
    IF ~e.templateExists
    THEN Exc("FileNotFoundError", Msg(<<"Template file not found">>, TemplatePath, <<>>))
    ELSE IF ~e.fontExists
    THEN Exc("FileNotFoundError", Msg(<<"Font file not found">>, FontPath, <<>>))
    ELSE None

\* Before construction there is no object: no images, no font, size 0.
NoHeap == [template |-> None, work |-> None]

NoFont == [advance |-> 0, left |-> 0, top |-> 0, glyph_height |-> 0]

Built(exc, hp, w, h, f, dirExists) ==
    [exc |-> exc, heap |-> hp, width |-> w, height |-> h, font |-> f,
     outDirExists |-> dirExists]

\* line 22: mkdir(parents=True, exist_ok=True), then the end of __init__
init_mkdir(mkdirOK, dirExists, hp, w, h, f) ==
    IF dirExists
    THEN Built(None, hp, w, h, f, TRUE)
    ELSE IF ~mkdirOK
    THEN Built(Exc("PermissionError", Msg(<<"cannot create directory">>, "", <<>>)),
               NoHeap, 0, 0, NoFont, dirExists)
    ELSE Built(None, hp, w, h, f, TRUE)

init_mkdir_first(e, dirExists, mkdirOK) ==
    LET made == dirExists \/ mkdirOK
        v == _validate_paths(e)
    IN  IF v # None
        THEN Built(v, NoHeap, 0, 0, NoFont, made)
        ELSE init_mkdir(mkdirOK, dirExists,
                        [template |-> Image(e.size[1], e.size[2]), work |-> None],
                        e.size[1], e.size[2], e.metrics)

\* lines 7-22.  e: the environment; dirExists: whether the output directory
\* exists; mkdirOK: whether it may be created.  The result: the exception raised (or None), the fields of the
\* new object and whether the output directory exists afterwards.
__init__(e, dirExists, mkdirOK) ==
    LET v == _validate_paths(e)
    IN  IF v # None
        THEN Built(v, NoHeap, 0, 0, NoFont, dirExists)
        ELSE IF ~e.fontOK
        THEN Built(Exc("OSError", Msg(<<"cannot open resource">>, "", <<>>)),
                   NoHeap, 0, 0, NoFont, dirExists)
        ELSE IF ~e.templateOK
        THEN Built(Exc("OSError", Msg(<<"cannot identify image file">>, "", <<>>)),
                   NoHeap, 0, 0, NoFont, dirExists)
        ELSE init_mkdir(mkdirOK, dirExists,
                        [template |-> Image(e.size[1], e.size[2]), work |-> None],
                        e.size[1], e.size[2], e.metrics)

-----------------------------------------------------------------------------
(* generate_batch, lines 68-86 *)

HeaderLine(n) == [kind |-> "header", n |-> n]

summary_swapped(nsuccessful, nfailed, output_dir) ==
    [kind |-> "summary", successful |-> nfailed, failed |-> nsuccessful,
     output_dir |-> absolute(output_dir)]

\* lines 82-86: what the batch prints when the loop is over
summary(nsuccessful, nfailed, output_dir) ==
    [kind |-> "summary", successful |-> nsuccessful, failed |-> nfailed,
     output_dir |-> absolute(output_dir)]

\* line 77: the truth value of what generate_certificate returned (a Path
\* is true, None is false)
truthy(ret) == ret # None

loop_next_break(ns, i, ret) == IF truthy(ret) THEN i + 1 ELSE Len(ns) + 1

\* line 76: the for loop goes on to the next name whatever the call returned
loop_next(ns, i, ret) == i + 1

Pending == [kind |-> "pending"]

-----------------------------------------------------------------------------
(* read_names_from_csv, lines 88-96 *)

NameColumn == "name"

read_names_from_csv_no_check(csv, name_column) ==
    IF ~csv.readable
    THEN [exc |-> Exc("Exception",
                      Msg(<<"Error reading CSV file", "No such file">>, "", <<>>)),
          value |-> <<>>]
    ELSE [exc |-> None,
          value |-> IF \E k \in 1..Len(csv.columns) : csv.columns[k] = name_column
                    THEN csv.rows ELSE <<>>]

\* lines 88-96.  The result: the exception raised (or None) and the list
\* returned.  Whatever line 91-94 raise is wrapped by line 96, its message
\* behind the prefix "Error reading CSV file".
read_names_from_csv(csv, name_column) ==
    IF ~csv.readable
    THEN [exc |-> Exc("Exception",
                      Msg(<<"Error reading CSV file", "No such file">>, "", <<>>)),
          value |-> <<>>]
    ELSE IF ~\E k \in 1..Len(csv.columns) : csv.columns[k] = name_column
    THEN LET inner == Exc("ValueError",
                          Msg(<<"Column not found in CSV file. Available columns">>,
                              name_column, csv.columns))
         IN  [exc |-> Exc("Exception",
                          Msg(<<"Error reading CSV file">> \o str(inner).text,
                              str(inner).subject, str(inner).list)),
              value |-> <<>>]
    ELSE [exc |-> None, value |-> csv.rows]

\* lines 140-143: main's handler prints "Error: " and the message
error_line(e) ==
    [kind |-> "diag", text |-> <<"Error">> \o str(e).text,
     subject |-> str(e).subject, list |-> str(e).list]

NoDiag == [kind |-> "diag", text |-> <<>>, subject |-> "", list |-> <<>>]

-----------------------------------------------------------------------------
(* The environment of a run *)

\* the class default of line 7 and the configuration of line 109
DefaultOutputDir == Dir(FALSE, <<"certificates">>)
MainOutputDir == Dir(TRUE, <<"C:", "Users", "Admin", "Desktop", "certificates", "certi">>)

FontColor == "#86529f"

\* A font whose glyphs are 2 wide: on the template of TemplateSize a name
\* of one character fits and a name of two does not.
SmallFont == [advance |-> 2, left |-> 1, top |-> 1, glyph_height |-> 3]
TemplateSize == <<3, 4>>

NoCsv == [readable |-> FALSE, columns |-> <<>>, rows |-> <<>>]

Env(tE, fE, tOK, fOK, d0, size, metrics, dir, csv) ==
    [templateExists |-> tE, fontExists |-> fE, templateOK |-> tOK,
     fontOK |-> fOK, outDirExists0 |-> d0, size |-> size,
     metrics |-> metrics, output_dir |-> dir, font_color |-> FontColor,
     csv |-> csv]

Envs ==
    {Env(tE, fE, tOK, fOK, d0, TemplateSize, SmallFont, DefaultOutputDir, NoCsv) :
        tE \in BOOLEAN, fE \in BOOLEAN, tOK \in BOOLEAN, fOK \in BOOLEAN,
        d0 \in BOOLEAN}

\* The names the calls of a run are made with: a plain name, a name with
\* the same stem, a name of disallowed characters only, a name with
\* leading whitespace.
CallNames == {<<"a">>, <<"a", "!">>, <<"!">>, <<" ", "b">>}

NoFrame == Frame(<<>>, "none", "none", None, None, None, None, None, FALSE)

\* the generator's fields, as generate_certificate reads them
Self ==
    [heap |-> heap, width |-> width, height |-> height, font |-> font,
     font_color |-> env.font_color, output_dir |-> env.output_dir]

InitWith(e) ==
    /\ env = e
    /\ outDirExists = e.outDirExists0
    /\ files = NoFiles
    /\ heap = NoHeap
    /\ width = 0
    /\ height = 0
    /\ font = NoFont
    /\ ctorError = None
    /\ names = <<>>
    /\ idx = 0
    /\ successful = 0
    /\ failed = 0
    /\ calls = <<>>
    /\ batchRet = Pending
    /\ lastCall = NoFrame
    /\ stdout = <<>>
    /\ nRenders = 0
    /\ nBatches = 0
    /\ diag = NoDiag

Init ==
    /\ \E e \in Envs : InitWith(e)
    /\ pc = "new"
    /\ mpc = "na"

-----------------------------------------------------------------------------
(* Actions *)

BatchVars == <<names, idx, successful, failed, calls, batchRet>>
GeneratorVars == <<heap, width, height, font>>
MainVars == <<mpc, diag>>

\* the effects of __init__ with the outcome b
Constructed(b) ==
    /\ ctorError' = b.exc
    /\ heap' = b.heap
    /\ width' = b.width
    /\ height' = b.height
    /\ font' = b.font
    /\ outDirExists' = b.outDirExists

\* CertificateGenerator(...): lines 7-22
Create(mkdirOK) ==
    /\ pc = "new"
    /\ mpc = "na"
    /\ LET b == __init__(env, outDirExists, mkdirOK)
       IN  /\ Constructed(b)
           /\ pc' = IF b.exc = None THEN "idle" ELSE "dead"
    /\ UNCHANGED <<env, files, BatchVars, lastCall, stdout, nRenders, nBatches,
                   MainVars>>

\* the effects of one generate_certificate call with the outcome r
Called(r) ==
    /\ heap' = r.heap
    /\ files' = r.files
    /\ stdout' = stdout \o r.out
    /\ lastCall' = r.frame
    /\ nRenders' = nRenders + 1

\* generator.generate_certificate(name), called on its own
CallGenerateCertificate(name, fault) ==
    /\ pc = "idle"
    /\ mpc = "na"
    /\ nRenders < MaxRenders
    /\ LET r == generate_certificate(Self, files, name, fault)
       IN  /\ Called(r)
           /\ pc' = IF r.frame.escaped THEN "crashed" ELSE "idle"
    /\ UNCHANGED <<env, outDirExists, width, height, font, ctorError,
                   BatchVars, nBatches, MainVars>>

\* generate_batch(ns) up to the loop: lines 70-74
EnterBatch(ns) ==
    /\ names' = ns
    /\ idx' = 1
    /\ successful' = 0
    /\ failed' = 0
    /\ calls' = <<>>
    /\ batchRet' = Pending
    /\ stdout' = Append(stdout, HeaderLine(Len(ns)))
    /\ nBatches' = nBatches + 1
    /\ pc' = "batch"

\* generator.generate_batch(ns), called on its own
CallGenerateBatch(ns) ==
    /\ pc = "idle"
    /\ mpc = "na"
    /\ nRenders + Len(ns) <= MaxRenders
    /\ nBatches < MaxBatches
    /\ EnterBatch(ns)
    /\ UNCHANGED <<env, outDirExists, files, GeneratorVars, ctorError,
                   lastCall, nRenders, MainVars>>

\* one iteration of the loop: lines 76-80
BatchStep(fault) ==
    /\ pc = "batch"
    /\ idx <= Len(names)
    /\ LET r == generate_certificate(Self, files, names[idx], fault)
           ret == r.frame.ret
       IN  /\ Called(r)
           /\ calls' = Append(calls, [name |-> names[idx], ret |-> ret])
           /\ IF r.frame.escaped
              THEN /\ pc' = "crashed"
                   /\ UNCHANGED <<idx, successful, failed>>
              ELSE /\ pc' = "batch"
                   /\ successful' = IF truthy(ret) THEN successful + 1 ELSE successful
                   /\ failed' = IF truthy(ret) THEN failed ELSE failed + 1
                   /\ idx' = loop_next(names, idx, ret)
    /\ UNCHANGED <<env, outDirExists, width, height, font, ctorError, names,
                   batchRet, nBatches, MainVars>>

\* the end of generate_batch: lines 82-86 and the return
BatchReturn ==
    /\ pc = "batch"
    /\ idx > Len(names)
    /\ stdout' = Append(stdout, summary(successful, failed, env.output_dir))
    /\ batchRet' = None
    /\ pc' = "idle"
    /\ UNCHANGED <<env, outDirExists, files, GeneratorVars, ctorError, names,
                   idx, successful, failed, calls, lastCall, nRenders, nBatches,
                   MainVars>>

Next ==
    \/ \E mk \in BOOLEAN : Create(mk)
    \/ \E n \in CallNames, f \in Faults : CallGenerateCertificate(n, f)
    \/ \E ns \in Strings(CallNames, MaxRenders) : CallGenerateBatch(ns)
    \/ \E f \in Faults : BatchStep(f)
    \/ BatchReturn

Spec == Init /\ [][Next]_vars

-----------------------------------------------------------------------------
(* main, lines 98-143 *)

CsvFiles ==
    {NoCsv}
    \cup {[readable |-> TRUE, columns |-> <<"Name", "email">>, rows |-> rs] :
            rs \in Strings(CallNames, 1)}
    \cup {[readable |-> TRUE, columns |-> <<"id", "name">>, rows |-> rs] :
            rs \in Strings(CallNames, MaxRenders)}

MainEnvs ==
    {Env(tE, fE, tOK, fOK, d0, TemplateSize, SmallFont, MainOutputDir, csv) :
        tE \in BOOLEAN, fE \in BOOLEAN, tOK \in BOOLEAN, fOK \in BOOLEAN,
        d0 \in BOOLEAN, csv \in CsvFiles}

InitMain ==
    /\ \E e \in MainEnvs : InitWith(e)
    /\ pc = "new"
    /\ mpc = "start"

NoNamesLine == [kind |-> "nonames"]

\* lines 140-143: except Exception in main, entered with the exception e
main_handler(e) ==
    IF caught(e)
    THEN [mpc |-> "done", diag |-> error_line(e)]
    ELSE [mpc |-> "unhandled", diag |-> NoDiag]

\* lines 99-131: read the CSV file and its name column
MainReadCsv ==
    /\ mpc = "start"
    /\ LET r == read_names_from_csv(env.csv, NameColumn)
       IN  IF ~env.csv.readable
           THEN \* line 123: pd.read_csv raises in main itself
                LET h == main_handler(Exc("FileNotFoundError",
                                          Msg(<<"No such file">>, "", <<>>)))
                IN  /\ mpc' = h.mpc
                    /\ diag' = h.diag
                    /\ UNCHANGED <<names, stdout>>
           ELSE IF r.exc # None
           THEN /\ mpc' = main_handler(r.exc).mpc
                /\ diag' = main_handler(r.exc).diag
                /\ UNCHANGED <<names, stdout>>
           ELSE IF r.value = <<>>
           THEN \* lines 127-129
                /\ mpc' = "done"
                /\ stdout' = Append(stdout, NoNamesLine)
                /\ UNCHANGED <<names, diag>>
           ELSE /\ mpc' = "construct"
                /\ names' = r.value
                /\ UNCHANGED <<stdout, diag>>
    /\ UNCHANGED <<env, outDirExists, files, GeneratorVars, ctorError, pc, idx,
                   successful, failed, calls, batchRet, lastCall, nRenders,
                   nBatches>>

\* line 135: generator = CertificateGenerator(**config)
MainCreate(mkdirOK) ==
    /\ mpc = "construct"
    /\ LET b == __init__(env, outDirExists, mkdirOK)
       IN  /\ Constructed(b)
           /\ IF b.exc = None
              THEN /\ pc' = "idle"
                   /\ mpc' = "call"
                   /\ UNCHANGED diag
              ELSE /\ pc' = "dead"
                   /\ mpc' = main_handler(b.exc).mpc
                   /\ diag' = main_handler(b.exc).diag
    /\ UNCHANGED <<env, files, BatchVars, lastCall, stdout, nRenders, nBatches>>

\* line 138: generator.generate_batch(names), up to its loop
MainCallBatch ==
    /\ mpc = "call"
    /\ pc = "idle"
    /\ EnterBatch(names)
    /\ mpc' = "batch"
    /\ UNCHANGED <<env, outDirExists, files, GeneratorVars, ctorError,
                   lastCall, nRenders, diag>>

\* generate_batch is over: main returns, or its handler runs
MainReturn ==
    /\ mpc = "batch"
    /\ pc \in {"idle", "crashed"}
    /\ IF pc = "idle"
       THEN /\ mpc' = "done"
            /\ UNCHANGED diag
       ELSE /\ mpc' = main_handler(lastCall.exc).mpc
            /\ diag' = main_handler(lastCall.exc).diag
    /\ UNCHANGED <<env, outDirExists, files, GeneratorVars, ctorError, pc,
                   BatchVars, lastCall, stdout, nRenders, nBatches>>

NextMain ==
    \/ MainReadCsv
    \/ \E mk \in BOOLEAN : MainCreate(mk)
    \/ MainCallBatch
    \/ \E f \in Faults : BatchStep(f)
    \/ BatchReturn
    \/ MainReturn

SpecMain == InitMain /\ [][NextMain]_vars

-----------------------------------------------------------------------------
(* One render of each name of a bounded set: the specifications of the     *)
(* filename and of the centering arithmetic                                *)

\* a generator built in the environment e, in generate_batch(<<n>>) before
\* the first iteration
InitOneRender(e, n) ==
    LET b == __init__(e, e.outDirExists0, TRUE)
    IN  /\ env = e
        /\ outDirExists = b.outDirExists
        /\ files = NoFiles
        /\ heap = b.heap
        /\ width = b.width
        /\ height = b.height
        /\ font = b.font
        /\ ctorError = b.exc
        /\ pc = "batch"
        /\ names = <<n>>
        /\ idx = 1
        /\ successful = 0
        /\ failed = 0
        /\ calls = <<>>
        /\ batchRet = Pending
        /\ lastCall = NoFrame
        /\ stdout = <<HeaderLine(1)>>
        /\ nRenders = 0
        /\ nBatches = 1
        /\ mpc = "na"
        /\ diag = NoDiag

GoodEnv(size, metrics) ==
    Env(TRUE, TRUE, TRUE, TRUE, FALSE, size, metrics, DefaultOutputDir, NoCsv)

InitSanitize ==
    \E n \in Strings(Chars, MaxLen) \cup {OBrien} :
        InitOneRender(GoodEnv(TemplateSize, SmallFont), n)

NextOneRender ==
    \/ \E f \in Faults : BatchStep(f)
    \/ BatchReturn

SpecSanitize == InitSanitize /\ [][NextOneRender]_vars

Fonts ==
    {[advance |-> a, left |-> l, top |-> t, glyph_height |-> g] :
        a \in 1..MaxAdvance, l \in 0..1, t \in 0..1, g \in 1..2}

InitPosition ==
    \E w \in 1..MaxDim, h \in 1..MaxDim, f \in Fonts, n \in Strings({"a"}, MaxLen) :
        InitOneRender(GoodEnv(<<w, h>>, f), n)

SpecPosition == InitPosition /\ [][NextOneRender]_vars

-----------------------------------------------------------------------------
(* Properties *)

Succeeded(c) == c.ret # None
Failed(c) == c.ret = None

CountSucceeded(seq) == Cardinality({k \in 1..Len(seq) : Succeeded(seq[k])})
CountFailed(seq) == Cardinality({k \in 1..Len(seq) : Failed(seq[k])})

BatchReturned == batchRet = None

\* C1: generate_batch calls generate_certificate once per name, in the given
\* order; successful and failed count the calls that returned a path and the
\* calls that returned None; the batch returns only after the last name
\* (also when names is empty), whatever failed before; and the file of every
\* call that succeeded is in the output directory.
C1_BatchIsolation ==
    nBatches > 0 =>
        /\ pc # "crashed"
        /\ Len(calls) <= Len(names)
        /\ \A k \in 1..Len(calls) : calls[k].name = names[k]
        /\ pc = "batch" => Len(calls) = idx - 1
        /\ successful = CountSucceeded(calls)
        /\ failed = CountFailed(calls)
        /\ successful + failed = Len(calls)
        /\ BatchReturned => Len(calls) = Len(names)
        /\ \A k \in 1..Len(calls) :
               Succeeded(calls[k]) => calls[k].ret.file \in DOMAIN files

\* C1 witness: a batch of two names has returned; the first render failed,
\* the second succeeded and its file is written.
C1_Witness ==
    /\ BatchReturned
    /\ Len(names) = 2
    /\ Len(calls) = 2
    /\ Failed(calls[1])
    /\ Succeeded(calls[2])
    /\ calls[2].ret.file \in DOMAIN files
    /\ successful = 1
    /\ failed = 1


SummaryLines == {k \in 1..Len(stdout) : stdout[k].kind = "summary"}

LastSummary == stdout[CHOOSE k \in SummaryLines : \A j \in SummaryLines : j <= k]

RenderReached(stages) == nRenders > 0 /\ lastCall.reached \in stages

\* C3: once the generator is built, the template image and the recorded
\* width and height stay what construction made them, whatever calls
\* succeeded or failed; the working copy of a call holds the template's
\* content and at most the one text this call drew.
C3_TemplateUnchanged ==
    pc \in {"idle", "batch", "crashed"} =>
        /\ heap.template = Image(env.size[1], env.size[2])
        /\ width = env.size[1]
        /\ height = env.size[2]
        /\ RenderReached({"measure", "draw"}) => heap.work = heap.template
        /\ RenderReached({"save", "return"}) =>
             /\ heap.work.size = heap.template.size
             /\ Len(heap.work.ink) = 1
             /\ heap.work.ink[1].text = lastCall.name

\* C3 witness: two renders were made, one failed and the latest succeeded.
C3_Witness ==
    /\ nRenders = 2
    /\ lastCall.ret # None
    /\ \E k \in 1..Len(stdout) : stdout[k].kind = "err"
    /\ heap.template = Image(env.size[1], env.size[2])


Allowed(c) == c \in Alnum \cup {" ", "-", "_"}

Spaces(n) == [k \in 1..n |-> " "]

\* C4: the stem computed on line 58 is the subsequence of the name's
\* alphanumeric, space, hyphen and underscore characters, in their order,
\* without the whitespace it starts and ends with: only such characters, no
\* whitespace first or last, and "O'Brien, Jr.!" gives "OBrien Jr".
C4_SanitizedStem ==
    (nRenders > 0 /\ lastCall.safe_filename # None) =>
        LET stem == lastCall.safe_filename.s
            kept == SelectSeq(lastCall.name, Allowed)
        IN  /\ \A k \in 1..Len(stem) : Allowed(stem[k])
            /\ stem # <<>> => stem[1] \notin Whitespace /\ stem[Len(stem)] \notin Whitespace
            /\ \E i \in 0..Len(kept), j \in 0..Len(kept) :
                   kept = Spaces(i) \o stem \o Spaces(j)
            /\ lastCall.name = OBrien =>
                   stem = <<"O", "B", "r", "i", "e", "n", " ", "J", "r">>

\* C4 witness: "O'Brien, Jr.!" was rendered and its stem computed.
C4_Witness ==
    /\ nRenders > 0
    /\ lastCall.name = OBrien
    /\ lastCall.safe_filename = Str(<<"O", "B", "r", "i", "e", "n", " ", "J", "r">>)
    /\ lastCall.ret # None

\* C4 witness of the trimming: a name with whitespace at both ends and a
\* dropped character inside.
C4_WitnessTrim ==
    /\ nRenders > 0
    /\ lastCall.name = <<" ", "\t", "a">>
    /\ lastCall.safe_filename = Str(<<"a">>)

Reported(frame) ==
    \E k \in 1..Len(stdout) :
        /\ stdout[k].kind = "err"
        /\ stdout[k].name = frame.name
        /\ stdout[k].msg = frame.exc.what

\* C5: no failure leaves generate_certificate: a call in which the copy, the
\* measuring, the drawing or the saving failed printed the error and
\* returned None; a call in which nothing failed returned
\* <output_dir>/<sanitized name>.png, which generate_batch counted as a
\* success.
C5_FailureCaught ==
    nRenders > 0 =>
        /\ ~lastCall.escaped
        /\ pc # "crashed"
        /\ lastCall.fault # "none" => lastCall.exc # None
        /\ lastCall.exc # None => lastCall.ret = None /\ Reported(lastCall)
        /\ lastCall.exc = None =>
             /\ lastCall.ret # None
             /\ lastCall.ret.dir = env.output_dir
             /\ lastCall.ret.file = lastCall.safe_filename.s \o PngSuffix
        /\ (pc = "batch" /\ calls # <<>>) =>
             /\ calls[Len(calls)].ret = lastCall.ret
             /\ successful = CountSucceeded(calls)
             /\ failed = CountFailed(calls)

\* C5 witness: inside a batch, the drawing of the latest call failed, the
\* call returned None and the batch goes on.
C5_Witness ==
    /\ pc = "batch"
    /\ lastCall.fault = "draw"
    /\ lastCall.ret = None
    /\ Reported(lastCall)
    /\ failed = 1
    /\ idx = 2
    /\ Len(names) = 2

\* C5 witness of the success case: the call returned the output path.
C5_WitnessSuccess ==
    /\ pc = "batch"
    /\ lastCall.fault = "none"
    /\ lastCall.ret = output_path_of(env.output_dir, <<"a">>)
    /\ successful = 1

MissingPath ==
    IF ~env.templateExists THEN TemplatePath ELSE FontPath

\* C6: when the template path or the font path does not exist, construction
\* raises FileNotFoundError naming the missing path (the template path when
\* both are missing), no generator exists afterwards, and nothing was
\* decoded or created: the output directory exists only if it did before.
C6_MissingResource ==
    (~env.templateExists \/ ~env.fontExists) =>
        /\ pc \in {"new", "dead"}
        /\ heap = NoHeap
        /\ files = NoFiles
        /\ outDirExists = env.outDirExists0
        /\ pc = "dead" =>
             /\ ctorError # None
             /\ ctorError.type = "FileNotFoundError"
             /\ ctorError.what.subject = MissingPath

\* C6 witness: both files are missing, construction failed naming the
\* template, and the output directory that did not exist still does not.
C6_Witness ==
    /\ pc = "dead"
    /\ ~env.templateExists
    /\ ~env.fontExists
    /\ ~env.outDirExists0
    /\ ~outDirExists
    /\ ctorError # None
    /\ ctorError.what.subject = TemplatePath


OkLines == {k \in 1..Len(stdout) : stdout[k].kind = "ok"}

FileOf(name) == safe_filename(name) \o PngSuffix

\* the latest successful render whose file is f
LastOk(f) ==
    CHOOSE k \in OkLines :
        /\ FileOf(stdout[k].name) = f
        /\ \A j \in OkLines : FileOf(stdout[j].name) = f => j <= k

\* the template with `name` drawn at its centered position
RenderOf(name) ==
    LET bbox == textbbox(env.metrics, name)
    IN  [kind |-> "Image", size |-> env.size,
         ink |-> <<[text |-> name,
                    x2 |-> env.size[1] - (bbox[3] - bbox[1]),
                    y2 |-> env.size[2] - (bbox[4] - bbox[2]) - 2 * UpwardAdjust,
                    fill |-> env.font_color]>>]

\* C7: the files of the output directory are exactly the <stem>.png of the
\* names rendered successfully, each holding the render of the latest such
\* name with that stem; when a batch has just rendered the same name twice,
\* it counted two successes and the one file of that name holds that render.
C7_LastWriteWins ==
    /\ DOMAIN files = {FileOf(stdout[k].name) : k \in OkLines}
    /\ \A f \in DOMAIN files : files[f] = RenderOf(stdout[LastOk(f)].name)
    /\ (pc = "batch" /\ Len(calls) = 2 /\ calls[1].name = calls[2].name
            /\ Succeeded(calls[1]) /\ Succeeded(calls[2])) =>
         /\ successful = 2
         /\ calls[1].ret = calls[2].ret
         /\ files[calls[1].ret.file] = RenderOf(calls[1].name)

\* C7 witness: two names with the same stem were rendered successfully, and
\* the one file holds the second.
C7_Witness ==
    /\ Len(calls) = 2
    /\ calls[1].name = <<"a">>
    /\ calls[2].name = <<"a", "!">>
    /\ Succeeded(calls[1])
    /\ Succeeded(calls[2])
    /\ DOMAIN files = {<<"a">> \o PngSuffix}
    /\ files[<<"a">> \o PngSuffix].ink[1].text = <<"a", "!">>

\* C7 witness of the idempotence: the same name was rendered twice.
C7_WitnessTwice ==
    /\ Len(calls) = 2
    /\ calls[1].name = <<"a">>
    /\ calls[2].name = <<"a">>
    /\ successful = 2
    /\ Cardinality(DOMAIN files) = 1

TextWidth == textbbox(font, lastCall.name)[3] - textbbox(font, lastCall.name)[1]
TextHeight == textbbox(font, lastCall.name)[4] - textbbox(font, lastCall.name)[2]

\* C8: the position is x = (W - tw) / 2, y = (H - th) / 2 - 30 (here in half
\* pixels); when tw <= W, x >= 0 and x + tw <= W; when tw > W, x < 0 and the
\* render goes on: it fails only if the environment makes a step fail.
C8_Centered ==
    (nRenders > 0 /\ lastCall.pos # None) =>
        /\ lastCall.pos.x2 = width - TextWidth
        /\ lastCall.pos.y2 = height - TextHeight - 2 * 30
        /\ TextWidth <= width =>
             /\ lastCall.pos.x2 >= 0
             /\ lastCall.pos.x2 + 2 * TextWidth <= 2 * width
        /\ TextWidth > width =>
             /\ lastCall.pos.x2 < 0
             /\ lastCall.fault = "none" => lastCall.exc = None /\ lastCall.ret # None

\* C8 witness: a text wider than the template was placed at a negative x
\* and its certificate written.
C8_Witness ==
    /\ nRenders > 0
    /\ lastCall.pos # None
    /\ TextWidth > width
    /\ lastCall.pos.x2 < 0
    /\ lastCall.ret # None

\* C8 witness of the fitting case, with an odd margin (x ends in .5).
C8_WitnessFits ==
    /\ nRenders > 0
    /\ lastCall.pos # None
    /\ TextWidth <= width
    /\ lastCall.pos.x2 = 1
    /\ lastCall.ret # None


ColumnMissing ==
    /\ env.csv.readable
    /\ \A k \in 1..Len(env.csv.columns) : env.csv.columns[k] # NameColumn

\* C9: in a run of main, when the name column is absent the reading fails
\* with an error naming the column and listing the available columns, no
\* generator is built, no render is attempted and no output directory or
\* file is created; when construction fails no render is attempted; both
\* runs end with the diagnostic of main's handler, none with an unhandled
\* error.
C9_FatalBeforeRendering ==
    /\ mpc # "unhandled"
    /\ ColumnMissing =>
         /\ pc = "new"
         /\ heap = NoHeap
         /\ nRenders = 0
         /\ nBatches = 0
         /\ files = NoFiles
         /\ outDirExists = env.outDirExists0
         /\ mpc \in {"start", "done"}
         /\ mpc = "done" =>
              /\ diag.text = <<"Error", "Error reading CSV file",
                               "Column not found in CSV file. Available columns">>
              /\ diag.subject = NameColumn
              /\ diag.list = env.csv.columns
    /\ ctorError # None =>
         /\ pc = "dead"
         /\ nRenders = 0
         /\ nBatches = 0
         /\ files = NoFiles
         /\ mpc = "done"
         /\ diag.text = <<"Error">> \o ctorError.what.text
         /\ diag.subject = ctorError.what.subject

\* C9 witness: the CSV file has rows but no name column, and main has ended
\* with the diagnostic, without a generator and without an output directory.
C9_Witness ==
    /\ ColumnMissing
    /\ env.csv.rows # <<>>
    /\ env.templateExists
    /\ env.fontExists
    /\ ~env.outDirExists0
    /\ mpc = "done"
    /\ diag.subject = NameColumn
    /\ diag.list = <<"Name", "email">>
    /\ ~outDirExists
    /\ pc = "new"

\* C9 witness of the construction failure: main has ended with the
\* diagnostic of the missing template, and nothing was rendered.
C9_WitnessConstruction ==
    /\ ~ColumnMissing
    /\ mpc = "done"
    /\ pc = "dead"
    /\ diag.subject = TemplatePath
    /\ nRenders = 0

EmptyStemCall ==
    /\ nRenders > 0
    /\ lastCall.fault = "none"
    /\ safe_filename(lastCall.name) = <<>>

\* C10 as amended: a name that sanitizes to the empty stem is not special
\* cased: the call copies, draws and computes the path <output_dir>/.png,
\* but the save rejects that file name (it has no extension), so the failure
\* is caught, the call returns None, no file .png is ever written and a
\* batch counts the name as failed.
C10_EmptyStemFailsToSave ==
    /\ PngSuffix \notin DOMAIN files
    /\ EmptyStemCall =>
         /\ lastCall.reached = "save"
         /\ lastCall.safe_filename = Str(<<>>)
         /\ lastCall.output_path = output_path_of(env.output_dir, <<>>)
         /\ Len(heap.work.ink) = 1
         /\ lastCall.exc # None
         /\ lastCall.exc.type = "ValueError"
         /\ ~lastCall.escaped
         /\ lastCall.ret = None
         /\ (pc = "batch" /\ calls # <<>>) =>
              (Failed(calls[Len(calls)]) /\ failed >= 1)

\* C10 witness: a batch of two names of disallowed characters only has made
\* both calls; both failed and no file was written.
C10_Witness ==
    /\ EmptyStemCall
    /\ names = <<(<<"!">>), (<<"!">>)>>
    /\ Len(calls) = 2
    /\ failed = 2
    /\ successful = 0
    /\ files = NoFiles

\* C10 as stated: a name that sanitizes to the empty stem is rendered to
\* <output_dir>/.png, the call returns that path and the batch counts a
\* success.
C10_EmptyStemWritesDotPng ==
    EmptyStemCall =>
        /\ lastCall.ret = output_path_of(env.output_dir, <<>>)
        /\ PngSuffix \in DOMAIN files
        /\ (pc = "batch" /\ calls # <<>>) => successful >= 1

====
